---------------------------- MODULE Spec2Model ----------------------------
(***************************************************************************)
(* Model of the Lighthouse audit dashboard: the audit normalizer           *)
(* (extract_scores, extract_core_web_vitals, extract_failed_audits and its *)
(* helpers) and the cross-site aggregator analyze_results of               *)
(* src/src/data_analyzer.py.                                               *)
(*                                                                         *)
(* Numbers.  Python floats are modelled as exact fixed-point numbers       *)
(* counted in hundredths: the raw score 0.57 is 57, the scaled score 57.0  *)
(* is 5700, the percentage 66.7 is 6670.  round() is modelled on the exact *)
(* quotient with ties going to the even neighbour, which is what Python's  *)
(* round does on an exactly representable tie (6.25 -> 6.2); a tie whose   *)
(* float quotient is inexact may fall either way in the program.           *)
(*                                                                         *)
(* Optional values.  Python None and a missing dictionary key are the      *)
(* empty sequence, a present value v is <<v>>.  Ordered dictionaries are   *)
(* sequences of entries in insertion order with distinct keys.             *)
(***************************************************************************)
EXTENDS Integers, Sequences, FiniteSets, TLC

(***************************************************************************)
(* State: the argument and the local variables of one call of              *)
(* analyze_results.  raw_results holds the results the loop has consumed   *)
(* so far, analysis the returned dictionary once the call has returned.    *)
(***************************************************************************)
VARIABLES raw_results, pc, issue_counts, site_data, theme_data,
          total_performance, total_seo, cwv_totals, successful_count,
          all_themes, analysis

(***************************************************************************)
(* State of one call of extract_failed_audits on its own: its argument     *)
(* extract_input, the payload (None while no such call is modelled), and   *)
(* extract_output, the list it returned (None until it has returned).      *)
(***************************************************************************)
VARIABLES extract_input, extract_output

(***************************************************************************)
(* State of one call of generate_report: report is the dictionary it       *)
(* returned (None until it has returned).                                  *)
(***************************************************************************)
VARIABLES report

(***************************************************************************)
(* State of one call of run_audits: its arguments df (the roster) and      *)
(* limit, its locals sites and run_results (the list `results`), run_i     *)
(* (the number of sites the loop has finished) and its position run_pc.    *)
(***************************************************************************)
VARIABLES df, limit, sites, run_results, run_i, run_pc

(***************************************************************************)
(* State of one call of run_lighthouse_api: its argument retries, the loop *)
(* variable attempt, the outcomes of the requests it has issued            *)
(* (responses), the seconds it slept after each of them (waits), its       *)
(* position api_pc and the value it returned (api_return).                 *)
(***************************************************************************)
VARIABLES retries, attempt, responses, waits, api_pc, api_return

None == <<>>

Some(v) == <<v>>

\* dict.get(key, default) on an optional field
Get(opt, default) == IF opt = None THEN default ELSE opt[1]

\* Python `x or default` on an optional number: None and 0 are both falsy
OrZero(opt) == IF opt = None THEN 0 ELSE opt[1]

METRIC_AUDITS ==
    { "largest-contentful-paint",
      "first-contentful-paint",
      "speed-index",
      "interactive",
      "total-blocking-time",
      "cumulative-layout-shift",
      "max-potential-fid",
      "first-meaningful-paint",
      "server-response-time" }

METRIC_WEIGHTS ==
    ("TBT" :> 30) @@ ("LCP" :> 25) @@ ("CLS" :> 25) @@ ("FCP" :> 10) @@ ("SI" :> 10)

AUDIT_IMPACT_MAP ==
       ("largest-contentful-paint" :> [impact |-> "high", metrics |-> <<"LCP">>])
    @@ ("first-contentful-paint" :> [impact |-> "medium", metrics |-> <<"FCP">>])
    @@ ("speed-index" :> [impact |-> "medium", metrics |-> <<"SI">>])
    @@ ("interactive" :> [impact |-> "high", metrics |-> <<"TBT">>])
    @@ ("total-blocking-time" :> [impact |-> "high", metrics |-> <<"TBT">>])
    @@ ("cumulative-layout-shift" :> [impact |-> "high", metrics |-> <<"CLS">>])
    @@ ("max-potential-fid" :> [impact |-> "high", metrics |-> <<"TBT">>])
    @@ ("render-blocking-resources" :> [impact |-> "high", metrics |-> <<"LCP", "FCP">>])
    @@ ("render-blocking-insight" :> [impact |-> "high", metrics |-> <<"LCP", "FCP">>])
    @@ ("unused-javascript" :> [impact |-> "high", metrics |-> <<"LCP", "TBT">>])
    @@ ("unused-css-rules" :> [impact |-> "high", metrics |-> <<"LCP", "FCP">>])
    @@ ("offscreen-images" :> [impact |-> "high", metrics |-> <<"LCP">>])
    @@ ("unminified-css" :> [impact |-> "high", metrics |-> <<"LCP", "FCP">>])
    @@ ("unminified-javascript" :> [impact |-> "high", metrics |-> <<"LCP", "TBT">>])
    @@ ("efficient-animated-content" :> [impact |-> "high", metrics |-> <<"LCP">>])
    @@ ("preload-lcp-image" :> [impact |-> "high", metrics |-> <<"LCP">>])
    @@ ("lcp-lazy-loaded" :> [impact |-> "high", metrics |-> <<"LCP">>])
    @@ ("prioritize-lcp-image" :> [impact |-> "high", metrics |-> <<"LCP">>])
    @@ ("image-delivery-insight" :> [impact |-> "high", metrics |-> <<"LCP">>])
    @@ ("modern-image-formats" :> [impact |-> "high", metrics |-> <<"LCP">>])
    @@ ("uses-optimized-images" :> [impact |-> "high", metrics |-> <<"LCP">>])
    @@ ("uses-responsive-images" :> [impact |-> "high", metrics |-> <<"LCP">>])
    @@ ("uses-webp-images" :> [impact |-> "high", metrics |-> <<"LCP">>])
    @@ ("network-dependency-tree-insight" :> [impact |-> "high", metrics |-> <<"LCP", "FCP">>])
    @@ ("bootup-time" :> [impact |-> "high", metrics |-> <<"TBT">>])
    @@ ("mainthread-work-breakdown" :> [impact |-> "high", metrics |-> <<"TBT">>])
    @@ ("long-tasks" :> [impact |-> "high", metrics |-> <<"TBT">>])
    @@ ("third-party-summary" :> [impact |-> "high", metrics |-> <<"TBT", "LCP">>])
    @@ ("third-party-facades" :> [impact |-> "high", metrics |-> <<"TBT">>])
    @@ ("script-treemap-data" :> [impact |-> "high", metrics |-> <<"TBT">>])
    @@ ("legacy-javascript" :> [impact |-> "high", metrics |-> <<"TBT">>])
    @@ ("legacy-javascript-insight" :> [impact |-> "high", metrics |-> <<"TBT">>])
    @@ ("duplicated-javascript" :> [impact |-> "high", metrics |-> <<"TBT">>])
    @@ ("duplicated-javascript-insight" :> [impact |-> "high", metrics |-> <<"TBT">>])
    @@ ("forced-reflow-insight" :> [impact |-> "high", metrics |-> <<"TBT">>])
    @@ ("unsized-images" :> [impact |-> "high", metrics |-> <<"CLS">>])
    @@ ("non-composited-animations" :> [impact |-> "high", metrics |-> <<"CLS">>])
    @@ ("layout-shifts" :> [impact |-> "high", metrics |-> <<"CLS">>])
    @@ ("layout-shift-elements" :> [impact |-> "high", metrics |-> <<"CLS">>])
    @@ ("uses-text-compression" :> [impact |-> "medium", metrics |-> <<"FCP", "LCP">>])
    @@ ("uses-rel-preconnect" :> [impact |-> "medium", metrics |-> <<"FCP", "LCP">>])
    @@ ("uses-rel-preload" :> [impact |-> "medium", metrics |-> <<"FCP", "LCP">>])
    @@ ("font-display" :> [impact |-> "medium", metrics |-> <<"FCP", "CLS">>])
    @@ ("redirects" :> [impact |-> "medium", metrics |-> <<"FCP", "LCP">>])
    @@ ("dom-size" :> [impact |-> "medium", metrics |-> <<"TBT", "FCP">>])
    @@ ("document-latency-insight" :> [impact |-> "medium", metrics |-> <<"FCP">>])
    @@ ("server-response-time" :> [impact |-> "medium", metrics |-> <<"FCP", "LCP">>])
    @@ ("critical-request-chains" :> [impact |-> "medium", metrics |-> <<"FCP">>])
    @@ ("user-timings" :> [impact |-> "medium", metrics |-> <<"SI">>])
    @@ ("total-byte-weight" :> [impact |-> "medium", metrics |-> <<"FCP", "LCP">>])
    @@ ("lcp-breakdown-insight" :> [impact |-> "medium", metrics |-> <<"LCP">>])
    @@ ("uses-long-cache-ttl" :> [impact |-> "low", metrics |-> <<>>])
    @@ ("cache-insight" :> [impact |-> "low", metrics |-> <<>>])
    @@ ("uses-http2" :> [impact |-> "low", metrics |-> <<>>])
    @@ ("uses-passive-event-listeners" :> [impact |-> "low", metrics |-> <<>>])
    @@ ("no-document-write" :> [impact |-> "low", metrics |-> <<"FCP">>])
    @@ ("image-aspect-ratio" :> [impact |-> "low", metrics |-> <<"CLS">>])
    @@ ("image-size-responsive" :> [impact |-> "low", metrics |-> <<>>])
    @@ ("deprecations" :> [impact |-> "low", metrics |-> <<>>])
    @@ ("errors-in-console" :> [impact |-> "low", metrics |-> <<>>])
    @@ ("js-libraries" :> [impact |-> "low", metrics |-> <<>>])
    @@ ("inspector-issues" :> [impact |-> "low", metrics |-> <<>>])
    @@ ("valid-source-maps" :> [impact |-> "low", metrics |-> <<>>])
    @@ ("preload-fonts" :> [impact |-> "low", metrics |-> <<"FCP">>])
    @@ ("network-rtt" :> [impact |-> "low", metrics |-> <<>>])
    @@ ("network-server-latency" :> [impact |-> "low", metrics |-> <<>>])
    @@ ("viewport" :> [impact |-> "low", metrics |-> <<>>])

(***************************************************************************)
(* Ordered dictionaries: sequences of entries keyed by the field id.       *)
(***************************************************************************)
HasKey(d, k) == \E i \in 1..Len(d) : d[i].id = k

Entry(d, k) == d[CHOOSE i \in 1..Len(d) : d[i].id = k]

Keys(d) == [i \in 1..Len(d) |-> d[i].id]

Range(s) == { s[i] : i \in 1..Len(s) }

\* sum(METRIC_WEIGHTS.get(m, 0) for m in affected_metrics)
RECURSIVE TotalWeight(_)
TotalWeight(affected_metrics) ==
    IF affected_metrics = <<>> THEN 0
    ELSE (IF Head(affected_metrics) \in DOMAIN METRIC_WEIGHTS
             THEN METRIC_WEIGHTS[Head(affected_metrics)] ELSE 0)
         + TotalWeight(Tail(affected_metrics))

_get_audit_impact_strict(audit_id, audit_data) ==
    IF audit_id \in DOMAIN AUDIT_IMPACT_MAP
    THEN [impact          |-> AUDIT_IMPACT_MAP[audit_id].impact,
          affectedMetrics |-> AUDIT_IMPACT_MAP[audit_id].metrics,
          metricSavings   |-> None]
    ELSE LET metric_savings   == audit_data.metricSavings
             affected_metrics == Keys(metric_savings)
             total_weight     == TotalWeight(affected_metrics)
         IN  IF metric_savings # <<>>
             THEN [impact          |-> IF total_weight > 25 THEN "high"
                                       ELSE IF total_weight >= 10 THEN "medium"
                                       ELSE "low",
                   affectedMetrics |-> affected_metrics,
                   metricSavings   |-> Some(metric_savings)]
             ELSE [impact          |-> "low",
                   affectedMetrics |-> <<>>,
                   metricSavings   |-> None]

\* _get_audit_impact: static table, then metricSavings, then the low default.
\* The returned metricSavings field is None where the code's dict has no
\* such key (the caller reads it with .get).
_get_audit_impact(audit_id, audit_data) ==
    IF audit_id \in DOMAIN AUDIT_IMPACT_MAP
    THEN [impact          |-> AUDIT_IMPACT_MAP[audit_id].impact,
          affectedMetrics |-> AUDIT_IMPACT_MAP[audit_id].metrics,
          metricSavings   |-> None]
    ELSE LET metric_savings   == audit_data.metricSavings
             affected_metrics == Keys(metric_savings)
             total_weight     == TotalWeight(affected_metrics)
         IN  IF metric_savings # <<>>
             THEN [impact          |-> IF total_weight >= 25 THEN "high"
                                       ELSE IF total_weight >= 10 THEN "medium"
                                       ELSE "low",
                   affectedMetrics |-> affected_metrics,
                   metricSavings   |-> Some(metric_savings)]
             ELSE [impact          |-> "low",
                   affectedMetrics |-> <<>>,
                   metricSavings   |-> None]

\* lighthouse_result.get('audits', {}) and .get('categories', {})
AuditsOf(lighthouse_result) == Get(lighthouse_result.audits, <<>>)

CategoriesOf(lighthouse_result) == Get(lighthouse_result.categories, <<>>)

\* _get_audit_category: the first category, in payload order, one of whose
\* auditRefs names the audit; "unknown" when none does.
RECURSIVE CategoryScan(_, _)
CategoryScan(audit_id, categories) ==
    IF categories = <<>> THEN "unknown"
    ELSE IF \E j \in 1..Len(Head(categories).auditRefs) :
                Head(categories).auditRefs[j] = audit_id
         THEN Head(categories).id
         ELSE CategoryScan(audit_id, Tail(categories))

_get_audit_category(audit_id, lighthouse_result) ==
    CategoryScan(audit_id, CategoriesOf(lighthouse_result))

IsFailedAuditTableFirst(audit_data) ==
    /\ (audit_data.id \notin METRIC_AUDITS \/ audit_data.id \in DOMAIN AUDIT_IMPACT_MAP)
    /\ ~ (audit_data.score = None \/ audit_data.score = Some(100))
    /\ audit_data.scoreDisplayMode \notin
           { Some("manual"), Some("notApplicable"), Some("informative") }

\* The three `continue` tests of the loop of extract_failed_audits.
\* A score of 1 is 100 hundredths.
IsFailedAudit(audit_data) ==
    /\ audit_data.id \notin METRIC_AUDITS
    /\ ~ (audit_data.score = None \/ audit_data.score = Some(100))
    /\ audit_data.scoreDisplayMode \notin
           { Some("manual"), Some("notApplicable"), Some("informative") }

\* The record appended to `failed` for one audit that passed the tests.
FailedEntry(audit_data, lighthouse_result) ==
    LET impact_info == _get_audit_impact(audit_data.id, audit_data)
    IN  [id              |-> audit_data.id,
         title           |-> Get(audit_data.title, audit_data.id),
         description     |-> Get(audit_data.description, ""),
         score           |-> audit_data.score[1],
         displayValue    |-> Get(audit_data.displayValue, ""),
         category        |-> _get_audit_category(audit_data.id, lighthouse_result),
         impact          |-> impact_info.impact,
         affectedMetrics |-> impact_info.affectedMetrics,
         metricSavings   |-> impact_info.metricSavings]

\* extract_failed_audits: one pass over the audits in payload order.
RECURSIVE ExtractLoop(_, _)
ExtractLoop(audits, lighthouse_result) ==
    IF audits = <<>> THEN <<>>
    ELSE IF IsFailedAudit(Head(audits))
         THEN <<FailedEntry(Head(audits), lighthouse_result)>>
              \o ExtractLoop(Tail(audits), lighthouse_result)
         ELSE ExtractLoop(Tail(audits), lighthouse_result)

extract_failed_audits(lighthouse_result) ==
    ExtractLoop(AuditsOf(lighthouse_result), lighthouse_result)

\* categories.get(name, {}).get('score')
CategoryScore(lighthouse_result, name) ==
    IF HasKey(CategoriesOf(lighthouse_result), name)
    THEN Entry(CategoriesOf(lighthouse_result), name).score
    ELSE None

\* extract_scores: (score or 0) * 100
extract_scores(lighthouse_result) ==
    [performance |-> OrZero(CategoryScore(lighthouse_result, "performance")) * 100,
     seo         |-> OrZero(CategoryScore(lighthouse_result, "seo")) * 100]

\* get_numeric_value of extract_core_web_vitals
get_numeric_value(lighthouse_result, audit_id) ==
    IF HasKey(AuditsOf(lighthouse_result), audit_id)
    THEN Entry(AuditsOf(lighthouse_result), audit_id).numericValue
    ELSE None

\* The six metric keys in the order of the dict extract_core_web_vitals builds.
CwvKeys == << "lcp", "fid", "cls", "fcp", "tbt", "si" >>

CwvAudit ==
    ("lcp" :> "largest-contentful-paint") @@ ("fid" :> "max-potential-fid")
    @@ ("cls" :> "cumulative-layout-shift") @@ ("fcp" :> "first-contentful-paint")
    @@ ("tbt" :> "total-blocking-time") @@ ("si" :> "speed-index")

extract_core_web_vitals(lighthouse_result) ==
    [m \in Range(CwvKeys) |-> get_numeric_value(lighthouse_result, CwvAudit[m])]

(***************************************************************************)
(* Arithmetic of the aggregation.                                          *)
(***************************************************************************)
\* a / b rounded to the nearest integer, ties to even (a >= 0, b > 0)
RoundHalfEven(a, b) ==
    LET q == a \div b
        r == a % b
    IN  IF 2 * r > b \/ (2 * r = b /\ q % 2 = 1) THEN q + 1 ELSE q

\* round(num / den, ndigits) for ndigits 1 or 2, in hundredths
round(num, den, ndigits) ==
    IF ndigits = 1 THEN 10 * RoundHalfEven(10 * num, den)
    ELSE RoundHalfEven(100 * num, den)

RECURSIVE InsertByCountUnstable(_, _)
InsertByCountUnstable(sorted, e) ==
    IF sorted = <<>> THEN <<e>>
    ELSE IF Head(sorted).count > e.count
         THEN <<Head(sorted)>> \o InsertByCountUnstable(Tail(sorted), e)
         ELSE <<e>> \o sorted

\* list.sort(key=lambda x: x['count'], reverse=True): a stable sort, so an
\* entry goes after every entry already placed whose count is not smaller.
RECURSIVE InsertByCount(_, _)
InsertByCount(sorted, e) ==
    IF sorted = <<>> THEN <<e>>
    ELSE IF Head(sorted).count >= e.count
         THEN <<Head(sorted)>> \o InsertByCount(Tail(sorted), e)
         ELSE <<e>> \o sorted

RECURSIVE SortLoop(_, _)
SortLoop(sorted, rest) ==
    IF rest = <<>> THEN sorted
    ELSE SortLoop(InsertByCount(sorted, Head(rest)), Tail(rest))

SortByCount(issues) == SortLoop(<<>>, issues)

(***************************************************************************)
(* analyze_results, the body of the loop over raw_results.                 *)
(***************************************************************************)
\* `not lighthouse or result.get('error')`: None and the empty dict are falsy
EmptyDict == [audits |-> None, categories |-> None]

IsErrorResultNoFlag(result) ==
    \/ result.lighthouse = None
    \/ result.lighthouse = Some(EmptyDict)

IsErrorResult(result) ==
    \/ result.lighthouse = None
    \/ result.lighthouse = Some(EmptyDict)
    \/ result.error = Some(TRUE)

\* for tema in site_temas: all_themes.add(tema)
AddThemes(themes, site_temas) == themes \cup Range(site_temas)

ErrorEntry(site_info) ==
    [nome            |-> site_info.nome,
     temas           |-> site_info.temas,
     scores          |-> None,
     core_web_vitals |-> None,
     issues          |-> <<>>,
     error           |-> Some(TRUE)]

SiteEntry(site_info, scores, cwv, failed_audits) ==
    [nome            |-> site_info.nome,
     temas           |-> site_info.temas,
     scores          |-> Some(scores),
     core_web_vitals |-> Some(cwv),
     issues          |-> [k \in 1..Len(failed_audits) |->
                            [id    |-> failed_audits[k].id,
                             title |-> failed_audits[k].title,
                             score |-> failed_audits[k].score]],
     error           |-> None]

\* defaultdict access: the entry for key k, created from `default` on first use
Touch(d, k, default) == IF HasKey(d, k) THEN d ELSE Append(d, default)

\* for metric, value in cwv.items(): if value is not None: sum += value, count += 1
RECURSIVE AggregateCwv(_, _, _)
AggregateCwv(totals, cwv, metrics) ==
    IF metrics = <<>> THEN totals
    ELSE LET metric == Head(metrics)
             value  == cwv[metric]
             d      == Touch(totals, metric, [id |-> metric, sum |-> 0, count |-> 0])
         IN  IF value # None
             THEN AggregateCwv(
                    [i \in 1..Len(d) |->
                        IF d[i].id = metric
                        THEN [d[i] EXCEPT !.sum = @ + value[1], !.count = @ + 1]
                        ELSE d[i]],
                    cwv, Tail(metrics))
             ELSE AggregateCwv(totals, cwv, Tail(metrics))

\* for tema in site_temas: theme_data[tema] += scores, count, site name
RECURSIVE AggregateThemes(_, _, _, _)
AggregateThemes(data, site_temas, scores, nome) ==
    IF site_temas = <<>> THEN data
    ELSE LET tema == Head(site_temas)
             d    == Touch(data, tema,
                        [id |-> tema, total_performance |-> 0, total_seo |-> 0,
                         count |-> 0, sites |-> <<>>])
         IN  AggregateThemes(
                [i \in 1..Len(d) |->
                    IF d[i].id = tema
                    THEN [d[i] EXCEPT !.total_performance = @ + scores.performance,
                                      !.total_seo = @ + scores.seo,
                                      !.count = @ + 1,
                                      !.sites = Append(@, nome)]
                    ELSE d[i]],
                Tail(site_temas), scores, nome)

RECURSIVE CountIssuesNoMerge(_, _, _)
CountIssuesNoMerge(counts, failed_audits, site_info) ==
    IF failed_audits = <<>> THEN counts
    ELSE LET audit == Head(failed_audits)
         IN  CountIssuesNoMerge(
                Append(counts,
                    [id |-> audit.id, count |-> 1, title |-> audit.title,
                     description |-> audit.description,
                     category |-> audit.category,
                     sites |-> << site_info.nome >>,
                     temas |-> Range(site_info.temas), impact |-> audit.impact,
                     affectedMetrics |-> audit.affectedMetrics]),
                Tail(failed_audits), site_info)

RECURSIVE CountIssuesPerTheme(_, _, _)
CountIssuesPerTheme(counts, failed_audits, site_info) ==
    IF failed_audits = <<>> THEN counts
    ELSE LET audit == Head(failed_audits)
             d     == Touch(counts, audit.id,
                        [id |-> audit.id, count |-> 0, title |-> "",
                         description |-> "", category |-> "", sites |-> <<>>,
                         temas |-> {}, impact |-> "low", affectedMetrics |-> <<>>])
         IN  CountIssuesPerTheme(
                [i \in 1..Len(d) |->
                    IF d[i].id = audit.id
                    THEN [d[i] EXCEPT !.count = @ + 1,
                                      !.title = audit.title,
                                      !.description = audit.description,
                                      !.category = audit.category,
                                      !.sites = @ \o [k \in 1..Len(site_info.temas) |->
                                                        site_info.nome],
                                      !.impact = audit.impact,
                                      !.affectedMetrics = audit.affectedMetrics,
                                      !.temas = @ \cup Range(site_info.temas)]
                    ELSE d[i]],
                Tail(failed_audits), site_info)

RECURSIVE CountIssuesFirstWins(_, _, _)
CountIssuesFirstWins(counts, failed_audits, site_info) ==
    IF failed_audits = <<>> THEN counts
    ELSE LET audit == Head(failed_audits)
             fresh == ~ HasKey(counts, audit.id)
             d     == Touch(counts, audit.id,
                        [id |-> audit.id, count |-> 0, title |-> "",
                         description |-> "", category |-> "", sites |-> <<>>,
                         temas |-> {}, impact |-> "low", affectedMetrics |-> <<>>])
         IN  CountIssuesFirstWins(
                [i \in 1..Len(d) |->
                    IF d[i].id = audit.id
                    THEN [d[i] EXCEPT !.count = @ + 1,
                                      !.title = IF fresh THEN audit.title ELSE @,
                                      !.description = IF fresh THEN audit.description ELSE @,
                                      !.category = IF fresh THEN audit.category ELSE @,
                                      !.sites = Append(@, site_info.nome),
                                      !.impact = IF fresh THEN audit.impact ELSE @,
                                      !.affectedMetrics =
                                          IF fresh THEN audit.affectedMetrics ELSE @,
                                      !.temas = @ \cup Range(site_info.temas)]
                    ELSE d[i]],
                Tail(failed_audits), site_info)

\* for audit in failed_audits: count, restamp, contributor, themes
RECURSIVE CountIssues(_, _, _)
CountIssues(counts, failed_audits, site_info) ==
    IF failed_audits = <<>> THEN counts
    ELSE LET audit == Head(failed_audits)
             d     == Touch(counts, audit.id,
                        [id |-> audit.id, count |-> 0, title |-> "",
                         description |-> "", category |-> "", sites |-> <<>>,
                         temas |-> {}, impact |-> "low", affectedMetrics |-> <<>>])
         IN  CountIssues(
                [i \in 1..Len(d) |->
                    IF d[i].id = audit.id
                    THEN [d[i] EXCEPT !.count = @ + 1,
                                      !.title = audit.title,
                                      !.description = audit.description,
                                      !.category = audit.category,
                                      !.sites = Append(@, site_info.nome),
                                      !.impact = audit.impact,
                                      !.affectedMetrics = audit.affectedMetrics,
                                      !.temas = @ \cup Range(site_info.temas)]
                    ELSE d[i]],
                Tail(failed_audits), site_info)

\* The local variables of analyze_results before the loop.
InitLocals ==
    [issue_counts      |-> <<>>,
     site_data         |-> <<>>,
     theme_data        |-> <<>>,
     total_performance |-> 0,
     total_seo         |-> 0,
     cwv_totals        |-> <<>>,
     successful_count  |-> 0,
     all_themes        |-> {}]

FoldErrorCounted(st, result) ==
    [st EXCEPT !.all_themes = AddThemes(@, result.site_info.temas),
               !.site_data  = Append(@, ErrorEntry(result.site_info)),
               !.successful_count = @ + 1]

\* One iteration of `for result in raw_results` on a result without payload.
FoldError(st, result) ==
    [st EXCEPT !.all_themes = AddThemes(@, result.site_info.temas),
               !.site_data  = Append(@, ErrorEntry(result.site_info))]

\* One iteration of `for result in raw_results` on an audited site.
FoldSite(st, result) ==
    LET site_info     == result.site_info
        lighthouse    == result.lighthouse[1]
        scores        == extract_scores(lighthouse)
        cwv           == extract_core_web_vitals(lighthouse)
        failed_audits == extract_failed_audits(lighthouse)
    IN  [issue_counts      |-> CountIssues(st.issue_counts, failed_audits, site_info),
         site_data         |-> Append(st.site_data,
                                      SiteEntry(site_info, scores, cwv, failed_audits)),
         theme_data        |-> AggregateThemes(st.theme_data, site_info.temas,
                                               scores, site_info.nome),
         total_performance |-> st.total_performance + scores.performance,
         total_seo         |-> st.total_seo + scores.seo,
         cwv_totals        |-> AggregateCwv(st.cwv_totals, cwv, CwvKeys),
         successful_count  |-> st.successful_count + 1,
         all_themes        |-> AddThemes(st.all_themes, site_info.temas)]

(***************************************************************************)
(* analyze_results, after the loop.                                        *)
(***************************************************************************)
TotalSitesOfRoster(successes) == Len(raw_results)

\* total_sites = successful_count or 1
TotalSites(successes) == IF successes = 0 THEN 1 ELSE successes

\* list(data['temas']): the elements of the set in the iteration order of
\* the run, given as a sequence `order` that lists every theme once.
ListOfSet(set, order) == SelectSeq(order, LAMBDA t : t \in set)

\* issue_entry of the classification loop; percentage = count / total_sites * 100
IssueEntry(data, total_sites, order) ==
    [id              |-> data.id,
     title           |-> data.title,
     description     |-> data.description,
     category        |-> data.category,
     count           |-> data.count,
     percentage      |-> round(data.count * 100, total_sites, 1),
     sites           |-> data.sites,
     temas           |-> ListOfSet(data.temas, order),
     impact          |-> data.impact,
     affectedMetrics |-> data.affectedMetrics]

TierOfInclusive(data, total_sites) ==
    IF data.count * 100 >= 70 * total_sites THEN "critical"
    ELSE IF data.count * 100 >= 30 * total_sites THEN "frequent"
    ELSE "occasional"

\* if percentage > 70 / elif percentage >= 30 / else, on the unrounded value
TierOf(data, total_sites) ==
    IF data.count * 100 > 70 * total_sites THEN "critical"
    ELSE IF data.count * 100 >= 30 * total_sites THEN "frequent"
    ELSE "occasional"

\* The list one tier receives from the loop over issue_counts.items().
RECURSIVE TierList(_, _, _, _)
TierList(counts, tier, total_sites, order) ==
    IF counts = <<>> THEN <<>>
    ELSE IF TierOf(Head(counts), total_sites) = tier
         THEN <<IssueEntry(Head(counts), total_sites, order)>>
              \o TierList(Tail(counts), tier, total_sites, order)
         ELSE TierList(Tail(counts), tier, total_sites, order)

\* avg_cwv: one entry per key of cwv_totals
AvgCwv(totals) ==
    [i \in 1..Len(totals) |->
        [id    |-> totals[i].id,
         value |-> IF totals[i].count > 0
                   THEN Some(round(totals[i].sum, 100 * totals[i].count, 2))
                   ELSE None]]

\* by_theme: one entry per key of theme_data whose count is positive
ByTheme(themes) ==
    LET kept == SelectSeq(themes, LAMBDA data : data.count > 0)
    IN  [i \in 1..Len(kept) |->
            [id              |-> kept[i].id,
             avg_performance |-> round(kept[i].total_performance, 100 * kept[i].count, 1),
             avg_seo         |-> round(kept[i].total_seo, 100 * kept[i].count, 1),
             sites_count     |-> kept[i].count,
             sites           |-> kept[i].sites]]

AverageOverRoster(total, successes) ==
    IF successes # 0 THEN round(total, 100 * Len(raw_results), 1)
    ELSE round(0, 1, 1)

\* avg = total / successful_count if successful_count else 0; round(avg, 1)
Average(total, successes) ==
    IF successes # 0 THEN round(total, 100 * successes, 1)
    ELSE round(0, 1, 1)

\* The dictionary analyze_results returns.  sorted(list(all_themes)) is the
\* set itself: a sorted list of distinct strings carries no more than the set.
Finalize(st, results, order) ==
    LET total_sites == TotalSites(st.successful_count)
    IN  [summary |->
            [avg_performance   |-> Average(st.total_performance, st.successful_count),
             avg_seo           |-> Average(st.total_seo, st.successful_count),
             core_web_vitals   |-> AvgCwv(st.cwv_totals),
             total_sites       |-> Len(results),
             successful_audits |-> st.successful_count],
         common_issues |->
            [critical   |-> SortByCount(TierList(st.issue_counts, "critical", total_sites, order)),
             frequent   |-> SortByCount(TierList(st.issue_counts, "frequent", total_sites, order)),
             occasional |-> SortByCount(TierList(st.issue_counts, "occasional", total_sites, order))],
         by_site  |-> st.site_data,
         by_theme |-> ByTheme(st.theme_data),
         themes   |-> st.all_themes]

\* The whole loop as a fold, and the whole function.
RECURSIVE FoldAll(_, _)
FoldAll(st, results) ==
    IF results = <<>> THEN st
    ELSE FoldAll(IF IsErrorResult(Head(results)) THEN FoldError(st, Head(results))
                 ELSE FoldSite(st, Head(results)),
                 Tail(results))

Analyze(results, order) == Finalize(FoldAll(InitLocals, results), results, order)

\* The iteration orders a set of themes can have.
Orders(S) == { o \in [1..Cardinality(S) -> S] : Range(o) = S }

(***************************************************************************)
(* The call of analyze_results as a state machine.                         *)
(***************************************************************************)
vars == << raw_results, pc, issue_counts, site_data, theme_data,
           total_performance, total_seo, cwv_totals, successful_count,
           all_themes, analysis, extract_input, extract_output, report,
           df, limit, sites, run_results, run_i, run_pc,
           retries, attempt, responses, waits, api_pc, api_return >>

\* The state outside analyze_results and extract_failed_audits.
runnerVars == << df, limit, sites, run_results, run_i, run_pc >>

apiVars == << retries, attempt, responses, waits, api_pc, api_return >>

otherVars == << report, runnerVars, apiVars >>

\* No call outside analyze_results and extract_failed_audits has started.
RunnerIdle ==
    /\ df = <<>>
    /\ limit = None
    /\ sites = <<>>
    /\ run_results = <<>>
    /\ run_i = 0
    /\ run_pc = "idle"

ApiIdle ==
    /\ retries = 0
    /\ attempt = 0
    /\ responses = <<>>
    /\ waits = <<>>
    /\ api_pc = "idle"
    /\ api_return = None

OthersIdle == report = None /\ RunnerIdle /\ ApiIdle

Locals ==
    [issue_counts      |-> issue_counts,
     site_data         |-> site_data,
     theme_data        |-> theme_data,
     total_performance |-> total_performance,
     total_seo         |-> total_seo,
     cwv_totals        |-> cwv_totals,
     successful_count  |-> successful_count,
     all_themes        |-> all_themes]

SetLocals(st) ==
    /\ issue_counts'      = st.issue_counts
    /\ site_data'         = st.site_data
    /\ theme_data'        = st.theme_data
    /\ total_performance' = st.total_performance
    /\ total_seo'         = st.total_seo
    /\ cwv_totals'        = st.cwv_totals
    /\ successful_count'  = st.successful_count
    /\ all_themes'        = st.all_themes

Init ==
    /\ raw_results = <<>>
    /\ pc = "loop"
    /\ issue_counts = InitLocals.issue_counts
    /\ site_data = InitLocals.site_data
    /\ theme_data = InitLocals.theme_data
    /\ total_performance = InitLocals.total_performance
    /\ total_seo = InitLocals.total_seo
    /\ cwv_totals = InitLocals.cwv_totals
    /\ successful_count = InitLocals.successful_count
    /\ all_themes = InitLocals.all_themes
    /\ analysis = None
    /\ extract_input = None
    /\ extract_output = None
    /\ OthersIdle

\* The loop takes a result that has no usable payload: lines 289-305.
ProcessErrorResult(result) ==
    /\ pc = "loop"
    /\ IsErrorResult(result)
    /\ raw_results' = Append(raw_results, result)
    /\ SetLocals(FoldError(Locals, result))
    /\ UNCHANGED << pc, analysis, extract_input, extract_output, otherVars >>

\* The loop takes the result of an audited site: lines 289-296 and 307-351.
ProcessSiteResult(result) ==
    /\ pc = "loop"
    /\ ~ IsErrorResult(result)
    /\ raw_results' = Append(raw_results, result)
    /\ SetLocals(FoldSite(Locals, result))
    /\ UNCHANGED << pc, analysis, extract_input, extract_output, otherVars >>

\* The list is exhausted: classification, sorting, averages and return.
Return ==
    /\ pc = "loop"
    /\ \E order \in Orders(all_themes) :
          analysis' = Some(Finalize(Locals, raw_results, order))
    /\ pc' = "done"
    /\ UNCHANGED << raw_results, issue_counts, site_data, theme_data,
                    total_performance, total_seo, cwv_totals,
                    successful_count, all_themes, extract_input, extract_output,
                    otherVars >>

(***************************************************************************)
(* Inputs.                                                                 *)
(***************************************************************************)
Audit(id, score, mode, savings, numericValue) ==
    [id |-> id, title |-> None, description |-> None, score |-> score,
     displayValue |-> None, scoreDisplayMode |-> mode,
     metricSavings |-> savings, numericValue |-> numericValue]

Failing(id) == Audit(id, Some(50), Some("binary"), <<>>, None)

Passing(id) == Audit(id, Some(100), Some("binary"), <<>>, None)

Category(id, score, refs) == [id |-> id, score |-> score, auditRefs |-> refs]

Payload(audits, categories) == [audits |-> Some(audits), categories |-> Some(categories)]

Result(nome, temas, lighthouse, error) ==
    [site_info |-> [nome |-> nome, temas |-> temas],
     lighthouse |-> lighthouse, error |-> error]

\* Longest input list of the specification Spec.
MaxSites == 3

IssuePayloads ==
    { Payload(audits, << Category("performance", Some(90), <<"unused-javascript">>) >>) :
        audits \in { <<>>,
                     << Failing("unused-javascript") >>,
                     << Failing("uses-http2") >>,
                     << Failing("unused-javascript"), Failing("uses-http2") >>,
                     << Failing("uses-http2"), Failing("unused-javascript") >>,
                     << Failing("custom-audit"), Passing("unused-javascript"),
                        Failing("interactive") >> } }

IssueInputs ==
    { Result(info[1], info[2], Some(p), None) :
        info \in { <<"a", <<"blog">> >>, <<"b", <<"loja", "blog">> >> },
        p \in IssuePayloads }
    \cup
    { Result("e", <<"erro">>, None, Some(TRUE)),
      Result("f", <<"blog">>,
             Some(Payload(<< Failing("custom-audit") >>, <<>>)), Some(TRUE)),
      Result("g", <<>>, Some(EmptyDict), None) }

Next ==
    \/ \E result \in IssueInputs :
          Len(raw_results) < MaxSites /\ ProcessErrorResult(result)
    \/ \E result \in IssueInputs :
          Len(raw_results) < MaxSites /\ ProcessSiteResult(result)
    \/ Return

Spec == Init /\ [][Next]_vars

\* Longest input list of the specification SpecBulk.
MaxBulk == 207

\* Long lists of one shape: at most one errored site, then sites that fail
\* the audit unused-javascript, then sites that fail nothing.
BulkError == Result("e", <<>>, None, Some(TRUE))

BulkFailing ==
    Result("s", <<>>, Some(Payload(<< Failing("unused-javascript") >>, <<>>)), None)

BulkClean == Result("s", <<>>, Some(Payload(<<>>, <<>>)), None)

BulkInputs(consumed) ==
    (IF consumed = <<>> THEN { BulkError } ELSE {})
    \cup (IF BulkClean \in Range(consumed) THEN {} ELSE { BulkFailing })
    \cup { BulkClean }

NextBulk ==
    \/ \E result \in BulkInputs(raw_results) :
          Len(raw_results) < MaxBulk /\ ProcessErrorResult(result)
    \/ \E result \in BulkInputs(raw_results) :
          Len(raw_results) < MaxBulk /\ ProcessSiteResult(result)
    \/ Return

SpecBulk == Init /\ [][NextBulk]_vars

\* Longest input list of the specification SpecMetrics.
MaxMetricSites == 4

\* An audit that only reports a measurement.
Metric(id, numericValue) == Audit(id, None, Some("numeric"), <<>>, numericValue)

\* Payloads that differ in their category scores and in the Core Web Vitals
\* measurements they carry.
MetricPayloads ==
    { Payload(<<>>, categories) :
        categories \in
          { <<>>,
            << Category("performance", Some(57), <<>>) >>,
            << Category("performance", None, <<>>), Category("seo", Some(100), <<>>) >>,
            << Category("seo", Some(33), <<>>), Category("performance", Some(0), <<>>) >>,
            << Category("performance", Some(100), <<>>), Category("seo", Some(90), <<>>) >> } }
    \cup
    { Payload(audits, << Category("performance", Some(57), <<>>) >>) :
        audits \in
          { << Metric("largest-contentful-paint", Some(0)) >>,
            << Metric("largest-contentful-paint", Some(125)),
               Metric("cumulative-layout-shift", Some(10)) >>,
            << Metric("largest-contentful-paint", None),
               Metric("speed-index", Some(250)) >>,
            << Metric("largest-contentful-paint", Some(250)),
               Metric("max-potential-fid", Some(16)),
               Metric("cumulative-layout-shift", Some(25)),
               Metric("first-contentful-paint", Some(180)),
               Metric("total-blocking-time", Some(0)),
               Metric("speed-index", Some(333)) >> } }

MetricInputs ==
    { Result("m", << "blog" >>, Some(p), None) : p \in MetricPayloads }
    \cup
    { Result("e", <<>>, None, Some(TRUE)),
      Result("f", <<>>,
             Some(Payload(<< Metric("largest-contentful-paint", Some(999)) >>,
                          << Category("performance", Some(100), <<>>),
                             Category("seo", Some(100), <<>>) >>)),
             Some(TRUE)) }

NextMetrics ==
    \/ \E result \in MetricInputs :
          Len(raw_results) < MaxMetricSites /\ ProcessErrorResult(result)
    \/ \E result \in MetricInputs :
          Len(raw_results) < MaxMetricSites /\ ProcessSiteResult(result)
    \/ Return

SpecMetrics == Init /\ [][NextMetrics]_vars

\* Longest input list of the specification SpecThemes.
MaxThemeSites == 3

\* Sites that differ in their theme tags, one naming a theme twice, and in
\* their scores; a theme carried by errored sites only.
ThemeInputs ==
    { Result(info[1], info[2], Some(Payload(<<>>, categories)), None) :
        info \in { << "a", << "blog" >> >>, << "b", << "loja", "blog" >> >>,
                   << "c", << "blog", "blog" >> >>, << "d", <<>> >> },
        categories \in
          { << Category("performance", Some(57), <<>>) >>,
            << Category("performance", Some(100), <<>>), Category("seo", Some(90), <<>>) >> } }
    \cup
    { Result("e", << "erro" >>, None, Some(TRUE)),
      Result("f", << "loja" >>,
             Some(Payload(<<>>, << Category("performance", Some(100), <<>>) >>)),
             Some(TRUE)) }

NextThemes ==
    \/ \E result \in ThemeInputs :
          Len(raw_results) < MaxThemeSites /\ ProcessErrorResult(result)
    \/ \E result \in ThemeInputs :
          Len(raw_results) < MaxThemeSites /\ ProcessSiteResult(result)
    \/ Return

SpecThemes == Init /\ [][NextThemes]_vars

(***************************************************************************)
(* extract_failed_audits on its own.                                       *)
(***************************************************************************)
\* Largest number of audits of a payload of the specification SpecExtract.
MaxAudits == 2

Savings(metrics) == [i \in 1..Len(metrics) |-> [id |-> metrics[i], value |-> 100 * i]]

\* Audit records: a failing one per id, and its variants in score, display
\* mode and metricSavings.
AuditRecords ==
    UNION { { Failing(id) }
            \cup { Audit(id, score, Some("binary"), <<>>, None) :
                     score \in { None, Some(0), Some(100) } }
            \cup { Audit(id, Some(50), mode, <<>>, Some(600)) :
                     mode \in { None, Some("manual"), Some("notApplicable"),
                                Some("informative") } }
            \cup { Audit(id, Some(50), Some("metricSavings"), Savings(metrics), None) :
                     metrics \in { << "INP" >>, << "FCP" >>, << "FCP", "SI" >>,
                                   << "SI", "INP", "FCP" >>, << "LCP" >>,
                                   << "INP", "TBT" >> } } :
            id \in { "server-response-time", "first-meaningful-paint",
                     "unused-javascript", "custom-audit" } }

ExtractPayloads ==
    { Payload(audits, << Category("performance", Some(90), << "unused-javascript" >>),
                         Category("seo", Some(90), << "custom-audit", "unused-javascript" >>) >>) :
        audits \in UNION { { a \in [1..n -> AuditRecords] :
                                \A i, j \in 1..n : i # j => a[i].id # a[j].id } :
                           n \in 0..MaxAudits } }

InitExtract ==
    /\ raw_results = <<>>
    /\ pc = "loop"
    /\ issue_counts = InitLocals.issue_counts
    /\ site_data = InitLocals.site_data
    /\ theme_data = InitLocals.theme_data
    /\ total_performance = InitLocals.total_performance
    /\ total_seo = InitLocals.total_seo
    /\ cwv_totals = InitLocals.cwv_totals
    /\ successful_count = InitLocals.successful_count
    /\ all_themes = InitLocals.all_themes
    /\ analysis = None
    /\ extract_input \in { Some(p) : p \in ExtractPayloads }
    /\ extract_output = None
    /\ OthersIdle

\* The call extract_failed_audits(extract_input) runs and returns.
ExtractFailedAudits ==
    /\ extract_input # None
    /\ extract_output = None
    /\ extract_output' = Some(extract_failed_audits(extract_input[1]))
    /\ UNCHANGED << raw_results, pc, issue_counts, site_data, theme_data,
                    total_performance, total_seo, cwv_totals, successful_count,
                    all_themes, analysis, extract_input, otherVars >>

NextExtract == ExtractFailedAudits

SpecExtract == InitExtract /\ [][NextExtract]_vars

(***************************************************************************)
(* Inputs whose sites report the same audit id with differing titles,      *)
(* descriptions, categories and metric savings.                            *)
(***************************************************************************)
\* Longest input list of the specification SpecStamp.
MaxStampSites == 3

\* The audit "custom-audit" failing, as one site's payload words it.
Stamped(title, description, savings) ==
    [Failing("custom-audit") EXCEPT !.title = title,
                                    !.description = description,
                                    !.metricSavings = Savings(savings)]

StampPayloads ==
    { Payload(<< Stamped(Some("Slow page"), Some("Long text"), <<"LCP">>) >>,
              << Category("performance", Some(50), <<"custom-audit">>) >>),
      Payload(<< Stamped(Some("Pagina lenta"), None, <<>>) >>,
              << Category("seo", Some(50), <<"custom-audit">>) >>),
      Payload(<< Stamped(None, Some("Short text"), <<"FCP">>) >>, <<>>) }

StampInputs ==
    { Result(info[1], info[2], Some(p), None) :
        info \in { <<"a", <<"blog">> >>, <<"b", <<"loja">> >> },
        p \in StampPayloads }
    \cup
    { Result("c", <<"blog">>, Some(Payload(<< Passing("custom-audit") >>, <<>>)), None),
      Result("e", <<"erro">>, None, Some(TRUE)) }

NextStamp ==
    \/ \E result \in StampInputs :
          Len(raw_results) < MaxStampSites /\ ProcessErrorResult(result)
    \/ \E result \in StampInputs :
          Len(raw_results) < MaxStampSites /\ ProcessSiteResult(result)
    \/ Return

SpecStamp == Init /\ [][NextStamp]_vars

(***************************************************************************)
(* Very long input lists: at most one errored site, then at most two       *)
(* sites that fail an audit, then sites that fail nothing.                 *)
(***************************************************************************)
\* Longest input list of the specification SpecLong.
MaxLong == 2001

LongFailing ==
    << Result("a", <<>>,
              Some(Payload(<< Failing("unused-javascript") >>, <<>>)), None),
       Result("b", <<"blog">>,
              Some(Payload(<< Failing("unused-javascript"), Failing("uses-http2") >>,
                           <<>>)), None) >>

LongInputs(consumed) ==
    (IF consumed = <<>> THEN { BulkError } ELSE {})
    \cup (IF BulkClean \in Range(consumed) THEN {}
          ELSE { LongFailing[k] : k \in { n \in 1..Len(LongFailing) :
                    \A j \in n..Len(LongFailing) :
                        LongFailing[j] \notin Range(consumed) } })
    \cup { BulkClean }

NextLong ==
    \/ \E result \in LongInputs(raw_results) :
          Len(raw_results) < MaxLong /\ ProcessErrorResult(result)
    \/ \E result \in LongInputs(raw_results) :
          Len(raw_results) < MaxLong /\ ProcessSiteResult(result)
    \/ Return

SpecLong == Init /\ [][NextLong]_vars

(***************************************************************************)
(* report_generator.py: the report built from the returned analysis.       *)
(***************************************************************************)
\* _simplify_issues: the seven keys copied from each issue, in list order.
_simplify_issues(issues) ==
    [i \in 1..Len(issues) |->
        [id          |-> issues[i].id,
         title       |-> issues[i].title,
         description |-> issues[i].description,
         category    |-> issues[i].category,
         count       |-> issues[i].count,
         percentage  |-> issues[i].percentage,
         temas       |-> IF "temas" \in DOMAIN issues[i]
                         THEN issues[i].temas ELSE <<>>]]

\* _prepare_sites_data: the entry of each site, with issues_count added and
\* the error flag defaulting to False.  The descriptor fields other than
\* nome and temas are copied unchanged and left out here as in SiteEntry.
_prepare_sites_data(entries) ==
    [i \in 1..Len(entries) |->
        [nome            |-> entries[i].nome,
         temas           |-> entries[i].temas,
         scores          |-> entries[i].scores,
         core_web_vitals |-> entries[i].core_web_vitals,
         issues_count    |-> Len(entries[i].issues),
         issues          |-> entries[i].issues,
         error           |-> Get(entries[i].error, FALSE)]]

\* generate_report; now is the reading of the wall clock at the call.
generate_report(results, an, now) ==
    [metadata      |-> [generated_at      |-> now,
                        total_sites       |-> an.summary.total_sites,
                        successful_audits |-> an.summary.successful_audits,
                        version           |-> "1.0.0"],
     summary       |-> [avg_performance |-> an.summary.avg_performance,
                        avg_seo         |-> an.summary.avg_seo,
                        core_web_vitals |-> an.summary.core_web_vitals],
     common_issues |-> [critical   |-> _simplify_issues(an.common_issues.critical),
                        frequent   |-> _simplify_issues(an.common_issues.frequent),
                        occasional |-> _simplify_issues(an.common_issues.occasional)],
     by_site       |-> _prepare_sites_data(an.by_site),
     by_theme      |-> an.by_theme,
     themes        |-> an.themes]

\* Readings of the wall clock.
Clock == { "t1", "t2" }

\* The call generate_report(raw_results, analysis) runs and returns.
GenerateReport ==
    /\ pc = "done"
    /\ report = None
    /\ \E now \in Clock :
          report' = Some(generate_report(raw_results, analysis[1], now))
    /\ UNCHANGED << raw_results, pc, issue_counts, site_data, theme_data,
                    total_performance, total_seo, cwv_totals, successful_count,
                    all_themes, analysis, extract_input, extract_output,
                    runnerVars, apiVars >>

\* Longest input list of the specification SpecReport.
MaxReportSites == 2

NextReport ==
    \/ \E result \in IssueInputs :
          Len(raw_results) < MaxReportSites /\ ProcessErrorResult(result)
    \/ \E result \in IssueInputs :
          Len(raw_results) < MaxReportSites /\ ProcessSiteResult(result)
    \/ Return
    \/ GenerateReport

SpecReport == Init /\ [][NextReport]_vars

(***************************************************************************)
(* lighthouse_runner.py: run_audits.                                       *)
(***************************************************************************)
\* sites[:limit] under `if limit:` -- None and 0 leave the roster whole, a
\* negative limit drops that many sites from the end.
ApplyLimit(roster, lim) ==
    IF lim = None \/ lim = Some(0) THEN roster
    ELSE IF lim[1] > 0
         THEN SubSeq(roster, 1, IF lim[1] < Len(roster) THEN lim[1] ELSE Len(roster))
         ELSE SubSeq(roster, 1, IF Len(roster) + lim[1] > 0
                                THEN Len(roster) + lim[1] ELSE 0)

\* temas = site.get('temas', [])
TemasOf(site) == Get(site.temas, <<>>)

\* The record appended for a truthy payload: no error key.
SuccessRecord(site, lighthouse_result) ==
    Result(site.nome, TemasOf(site), Some(lighthouse_result), None)

\* The record appended for a falsy payload or a caught exception.
ErrorRecord(site) == Result(site.nome, TemasOf(site), None, Some(TRUE))

\* `if lighthouse_result:` -- None and the empty dict are falsy
Truthy(lighthouse) == lighthouse # None /\ lighthouse # Some(EmptyDict)

\* The body of the loop for one site, lines 205-263.  outcome is what
\* run_lighthouse_api did: raised, or returned outcome.lighthouse;
\* categories_null says that the payload's 'categories' value is JSON null,
\* on which the score display of lines 230-233 raises AttributeError after
\* the success record has been appended, so that the handler of lines
\* 253-263 appends an error record for the same site.
AuditOne(results, site, outcome) ==
    IF outcome.kind = "raise"
    THEN Append(results, ErrorRecord(site))
    ELSE IF Truthy(outcome.lighthouse)
         THEN IF outcome.categories_null
              THEN Append(Append(results, SuccessRecord(site, outcome.lighthouse[1])),
                          ErrorRecord(site))
              ELSE Append(results, SuccessRecord(site, outcome.lighthouse[1]))
         ELSE Append(results, ErrorRecord(site))

\* Longest roster of the specification SpecRunner.
MaxRoster == 3

SiteNames == << "a", "b", "c", "d", "e" >>

\* The site descriptors of a roster: the second one has no 'temas' key.
Rosters ==
    { [k \in 1..n |-> [nome  |-> SiteNames[k],
                       temas |-> IF k = 2 THEN None ELSE Some(<< "blog" >>)]] :
        n \in 0..MaxRoster }

Limits == { None } \cup { Some(n) : n \in (-1)..(MaxRoster + 1) }

ApiOutcome(kind, lighthouse, categories_null) ==
    [kind |-> kind, lighthouse |-> lighthouse, categories_null |-> categories_null]

ApiOutcomes ==
    { ApiOutcome("raise", None, FALSE),
      ApiOutcome("return", None, FALSE),
      ApiOutcome("return", Some(EmptyDict), FALSE),
      ApiOutcome("return",
                 Some(Payload(<< Failing("unused-javascript") >>,
                              << Category("performance", Some(90), <<>>) >>)), FALSE),
      ApiOutcome("return", Some(Payload(<< Failing("uses-http2") >>, <<>>)), TRUE) }

InitRunner ==
    /\ raw_results = <<>>
    /\ pc = "loop"
    /\ issue_counts = InitLocals.issue_counts
    /\ site_data = InitLocals.site_data
    /\ theme_data = InitLocals.theme_data
    /\ total_performance = InitLocals.total_performance
    /\ total_seo = InitLocals.total_seo
    /\ cwv_totals = InitLocals.cwv_totals
    /\ successful_count = InitLocals.successful_count
    /\ all_themes = InitLocals.all_themes
    /\ analysis = None
    /\ extract_input = None
    /\ extract_output = None
    /\ report = None
    /\ df \in Rosters
    /\ limit \in Limits
    /\ sites = <<>>
    /\ run_results = <<>>
    /\ run_i = 0
    /\ run_pc = "start"
    /\ ApiIdle

analyzerVars == << raw_results, pc, issue_counts, site_data, theme_data,
                   total_performance, total_seo, cwv_totals, successful_count,
                   all_themes, analysis, extract_input, extract_output >>

\* Lines 175-180: results = [], sites = df.to_dict('records'), the limit.
StartRun ==
    /\ run_pc = "start"
    /\ sites' = ApplyLimit(df, limit)
    /\ run_results' = <<>>
    /\ run_i' = 0
    /\ run_pc' = "loop"
    /\ UNCHANGED << analyzerVars, report, apiVars, df, limit >>

\* One pass of the loop of lines 193-267 (the sleep between sites changes
\* nothing that is modelled).
AuditSite ==
    /\ run_pc = "loop"
    /\ run_i < Len(sites)
    /\ \E outcome \in ApiOutcomes :
          run_results' = AuditOne(run_results, sites[run_i + 1], outcome)
    /\ run_i' = run_i + 1
    /\ UNCHANGED << analyzerVars, report, apiVars, df, limit, sites, run_pc >>

\* The loop is over: return results.
FinishRun ==
    /\ run_pc = "loop"
    /\ run_i = Len(sites)
    /\ run_pc' = "done"
    /\ UNCHANGED << analyzerVars, report, apiVars, df, limit, sites,
                    run_results, run_i >>

NextRunner == StartRun \/ AuditSite \/ FinishRun

SpecRunner == InitRunner /\ [][NextRunner]_vars

(***************************************************************************)
(* lighthouse_runner.py: run_lighthouse_api.                               *)
(***************************************************************************)
MAX_RETRIES == 3

RATE_LIMIT_WAIT == 60

\* What one requests.get did: a response with a status code, or an
\* exception (exc).  For a 200 response, json_ok says whether its body
\* parses and lighthouseResult is data.get('lighthouseResult').
HttpOutcome(status_code, exc, json_ok, lighthouseResult) ==
    [status_code |-> status_code, exc |-> exc, json_ok |-> json_ok,
     lighthouseResult |-> lighthouseResult]

Response(status_code) == HttpOutcome(status_code, "none", TRUE, None)

Raised(exc) == HttpOutcome(0, exc, TRUE, None)

HttpOutcomes ==
    { HttpOutcome(200, "none", TRUE,
                  Some(Payload(<< Failing("unused-javascript") >>, <<>>))),
      HttpOutcome(200, "none", TRUE, None),
      HttpOutcome(200, "none", FALSE, None) }
    \cup { Response(c) : c \in { 429, 500, 502, 503, 504, 404 } }
    \cup { Raised(x) : x \in { "Timeout", "ConnectionError",
                               "RequestException", "Exception" } }

Continue(seconds) == [next |-> "continue", wait |-> seconds, value |-> None]

ReturnValue(value) == [next |-> "return", wait |-> 0, value |-> value]

\* The body of the loop for one attempt, lines 95-164: what it does with
\* the outcome of its request.
AttemptBody(outcome, n, max) ==
    IF outcome.exc = "Timeout"
    THEN IF n < max - 1 THEN Continue(5) ELSE ReturnValue(None)
    ELSE IF outcome.exc = "ConnectionError"
    THEN IF n < max - 1 THEN Continue(10) ELSE ReturnValue(None)
    ELSE IF outcome.exc # "none"
    THEN ReturnValue(None)
    ELSE IF outcome.status_code = 200
    THEN IF outcome.json_ok THEN ReturnValue(outcome.lighthouseResult)
         ELSE ReturnValue(None)
    ELSE IF outcome.status_code = 429
    THEN Continue(RATE_LIMIT_WAIT * (n + 1))
    ELSE IF outcome.status_code \in { 500, 502, 503, 504 }
    THEN IF outcome.status_code # 500 /\ n < max - 1
         THEN Continue(5) ELSE ReturnValue(None)
    ELSE ReturnValue(None)

InitApi ==
    /\ raw_results = <<>>
    /\ pc = "loop"
    /\ issue_counts = InitLocals.issue_counts
    /\ site_data = InitLocals.site_data
    /\ theme_data = InitLocals.theme_data
    /\ total_performance = InitLocals.total_performance
    /\ total_seo = InitLocals.total_seo
    /\ cwv_totals = InitLocals.cwv_totals
    /\ successful_count = InitLocals.successful_count
    /\ all_themes = InitLocals.all_themes
    /\ analysis = None
    /\ extract_input = None
    /\ extract_output = None
    /\ report = None
    /\ RunnerIdle
    /\ retries \in 0..MAX_RETRIES
    /\ attempt = 0
    /\ responses = <<>>
    /\ waits = <<>>
    /\ api_pc = "loop"
    /\ api_return = None

\* One pass of `for attempt in range(retries)`: the request, the branch
\* taken on its outcome with its sleep, and either the next value of
\* attempt or the return (line 166 when the range is exhausted).
Attempt ==
    /\ api_pc = "loop"
    /\ attempt < retries
    /\ \E outcome \in HttpOutcomes :
          LET did == AttemptBody(outcome, attempt, retries)
          IN  /\ responses' = Append(responses, outcome)
              /\ waits' = Append(waits, did.wait)
              /\ IF did.next = "continue" /\ attempt + 1 < retries
                 THEN /\ attempt' = attempt + 1
                      /\ UNCHANGED << api_pc, api_return >>
                 ELSE /\ api_pc' = "returned"
                      /\ api_return' = did.value
                      /\ UNCHANGED attempt
    /\ UNCHANGED << analyzerVars, report, runnerVars, retries >>

\* range(retries) is empty: line 166 returns None without any request.
NoAttempt ==
    /\ api_pc = "loop"
    /\ attempt >= retries
    /\ api_pc' = "returned"
    /\ api_return' = None
    /\ UNCHANGED << analyzerVars, report, runnerVars, retries, attempt,
                    responses, waits >>

NextApi == Attempt \/ NoAttempt

SpecApi == InitApi /\ [][NextApi]_vars

(***************************************************************************)
(* Vocabulary of the claims, stated on the input and the returned value.   *)
(***************************************************************************)
Done == pc = "done"

Out == analysis[1]

\* A site result without payload, or flagged as an error.
Errored(result) == result.lighthouse = None \/ result.error = Some(TRUE)

AllErrored == \A i \in 1..Len(raw_results) : Errored(raw_results[i])

\* The summary carries a number for the Core Web Vitals key m.
HasAverage(m) ==
    \E i \in 1..Len(Out.summary.core_web_vitals) :
        /\ Out.summary.core_web_vitals[i].id = m
        /\ Out.summary.core_web_vitals[i].value # None

NoTiers ==
    /\ Out.common_issues.critical = <<>>
    /\ Out.common_issues.frequent = <<>>
    /\ Out.common_issues.occasional = <<>>

\* C7: on the empty list, and on a list in which every site errored, the call
\* returns with successful_audits = 0, both averages 0, no Core Web Vitals
\* average, three empty tier lists, an empty by_theme and total_sites equal to
\* the length of the list; on the empty list the themes are empty as well.
C7_Degenerate ==
    (Done /\ AllErrored) =>
        /\ Out.summary.total_sites = Len(raw_results)
        /\ Out.summary.successful_audits = 0
        /\ Out.summary.avg_performance = 0
        /\ Out.summary.avg_seo = 0
        /\ \A m \in Range(CwvKeys) : ~ HasAverage(m)
        /\ NoTiers
        /\ Out.by_theme = <<>>
        /\ (raw_results = <<>> => Out.themes = {} /\ Out.summary.total_sites = 0)

C7_Witness ==
    /\ Done /\ AllErrored /\ Len(raw_results) >= 2
    /\ \E i \in 1..Len(raw_results) : raw_results[i].lighthouse # None

\* The failed issues of the audited sites of the input, in the order the
\* loop meets them: sites in input order, audits in payload order.
RECURSIVE Encountered(_)
Encountered(results) ==
    IF results = <<>> THEN <<>>
    ELSE IF Errored(Head(results))
         THEN Encountered(Tail(results))
         ELSE Keys(extract_failed_audits(Head(results).lighthouse[1]))
              \o Encountered(Tail(results))

ObservedIds == Range(Encountered(raw_results))

FirstSeen(id) ==
    CHOOSE k \in 1..Len(Encountered(raw_results)) :
        /\ Encountered(raw_results)[k] = id
        /\ \A j \in 1..(k - 1) : Encountered(raw_results)[j] # id

Tiers == << Out.common_issues.critical, Out.common_issues.frequent,
            Out.common_issues.occasional >>

TierIds == Keys(Tiers[1]) \o Keys(Tiers[2]) \o Keys(Tiers[3])

\* C2: the ids in the three tier lists together are exactly the distinct
\* issue ids extract_failed_audits returns for the audited sites, each once.
C2_Partition ==
    Done =>
        /\ Range(TierIds) = ObservedIds
        /\ Len(TierIds) = Cardinality(ObservedIds)

C2_Witness ==
    /\ Done
    /\ Cardinality(ObservedIds) >= 2
    /\ Cardinality({ t \in 1..3 : Tiers[t] # <<>> }) >= 2
    /\ \E i \in 1..Len(raw_results) :
          /\ Errored(raw_results[i])
          /\ raw_results[i].lighthouse # None
          /\ \E a \in Range(extract_failed_audits(raw_results[i].lighthouse[1])) :
                a.id \notin ObservedIds

\* C4: every tier list is in non-increasing order of count, and issues of
\* one tier with equal counts are in the order in which their ids were first
\* encountered.
C4_Sorted ==
    Done =>
        \A t \in 1..3 : \A i, j \in 1..Len(Tiers[t]) :
            i < j =>
                /\ Tiers[t][i].count >= Tiers[t][j].count
                /\ Tiers[t][i].count = Tiers[t][j].count
                      => FirstSeen(Tiers[t][i].id) < FirstSeen(Tiers[t][j].id)

\* A tier in which the sort moved a later-seen issue ahead and kept a tie.
C4_Witness ==
    /\ Done
    /\ \E t \in 1..3 : \E i, j, k \in 1..Len(Tiers[t]) :
          /\ i < j /\ j < k
          /\ Tiers[t][i].count > Tiers[t][j].count
          /\ FirstSeen(Tiers[t][i].id) > FirstSeen(Tiers[t][j].id)
          /\ Tiers[t][j].count = Tiers[t][k].count

\* The iteration that has just consumed an errored result.
ErrorStep ==
    /\ pc = "loop" /\ pc' = "loop"
    /\ Len(raw_results') = Len(raw_results) + 1
    /\ Errored(raw_results'[Len(raw_results')])

RECURSIVE WithoutErrors(_)
WithoutErrors(results) ==
    IF results = <<>> THEN <<>>
    ELSE IF Errored(Head(results)) THEN WithoutErrors(Tail(results))
         ELSE <<Head(results)>> \o WithoutErrors(Tail(results))

\* C6, the step: consuming an errored result leaves every accumulator as it
\* was, adds the site's themes to all_themes and appends one by_site entry
\* with null scores and vitals, no issues and the error marker.
C6_StepFrame ==
    ErrorStep =>
        /\ UNCHANGED << issue_counts, theme_data, total_performance, total_seo,
                        cwv_totals, successful_count >>
        /\ all_themes' = all_themes
              \cup Range(raw_results'[Len(raw_results')].site_info.temas)
        /\ Len(site_data') = Len(site_data) + 1
        /\ SubSeq(site_data', 1, Len(site_data)) = site_data
        /\ LET e == site_data'[Len(site_data')]
           IN  /\ e.scores = None /\ e.core_web_vitals = None
               /\ e.issues = <<>> /\ e.error = Some(TRUE)
               /\ e.nome = raw_results'[Len(raw_results')].site_info.nome

\* C6, the result: of the returned dictionary only total_sites, by_site and
\* themes depend on the errored results of the input.
C6_ResultFrame ==
    Done =>
        \E order \in Orders(all_themes) :
            LET clean == Analyze(WithoutErrors(raw_results), order)
            IN  /\ Out.common_issues = clean.common_issues
                /\ Out.by_theme = clean.by_theme
                /\ Out.summary.avg_performance = clean.summary.avg_performance
                /\ Out.summary.avg_seo = clean.summary.avg_seo
                /\ Out.summary.core_web_vitals = clean.summary.core_web_vitals
                /\ Out.summary.successful_audits = clean.summary.successful_audits

\* C6: processing a result that has no payload or has the error flag set
\* changes no aggregation accumulator; it only adds the site's themes and one
\* error entry of by_site, so the errored results of the input show only in
\* total_sites, by_site and themes.
C6_ErrorFrame == [][C6_StepFrame]_vars /\ [](C6_ResultFrame)

C6_Witness ==
    /\ Done
    /\ Len(WithoutErrors(raw_results)) >= 1
    /\ Len(WithoutErrors(raw_results)) < Len(raw_results)
    /\ Out.themes # Analyze(WithoutErrors(raw_results), <<>>).themes
    /\ \E i \in 2..Len(raw_results) :
          /\ Errored(raw_results[i]) /\ raw_results[i].lighthouse # None
          /\ ~ Errored(raw_results[i - 1])
    /\ ~ NoTiers

\* A site result that was successfully audited: it carries a payload (not
\* None, not an empty dictionary) and no error flag.
Audited(result) ==
    /\ ~ Errored(result)
    /\ result.lighthouse # Some(EmptyDict)

Successes == Cardinality({ i \in 1..Len(raw_results) : Audited(raw_results[i]) })

\* The number of audited sites for which extract_failed_audits returns id.
Occurrences(id) ==
    Cardinality({ i \in 1..Len(raw_results) :
        /\ Audited(raw_results[i])
        /\ \E a \in Range(extract_failed_audits(raw_results[i].lighthouse[1])) :
              a.id = id })

\* successfulCount, replaced by 1 when no site succeeded
Denominator == IF Successes = 0 THEN 1 ELSE Successes

\* C1 as stated: the reported percentage, rounded to one decimal, is above
\* 70 in the critical list, from 30 to 70 in the frequent list and below 30
\* in the occasional list.
C1_ReportedStrict ==
    Done =>
        /\ \A i \in 1..Len(Tiers[1]) : Tiers[1][i].percentage > 7000
        /\ \A i \in 1..Len(Tiers[2]) :
              Tiers[2][i].percentage >= 3000 /\ Tiers[2][i].percentage <= 7000
        /\ \A i \in 1..Len(Tiers[3]) : Tiers[3][i].percentage < 3000

\* C1 amended: the tier follows the unrounded percentage 100 * count /
\* successful count (above 70, from 30 to 70, below 30), so the reported
\* percentage is at least 70 in the critical list, from 30 to 70 in the
\* frequent list and at most 30 in the occasional list.
C1_Tiers ==
    Done =>
        /\ \A i \in 1..Len(Tiers[1]) :
              /\ 100 * Tiers[1][i].count > 70 * Denominator
              /\ Tiers[1][i].percentage >= 7000
        /\ \A i \in 1..Len(Tiers[2]) :
              /\ 100 * Tiers[2][i].count >= 30 * Denominator
              /\ 100 * Tiers[2][i].count <= 70 * Denominator
              /\ Tiers[2][i].percentage >= 3000
              /\ Tiers[2][i].percentage <= 7000
        /\ \A i \in 1..Len(Tiers[3]) :
              /\ 100 * Tiers[3][i].count < 30 * Denominator
              /\ Tiers[3][i].percentage <= 3000

\* A critical issue whose reported percentage is exactly 70.0.
C1_Witness ==
    /\ Done
    /\ Tiers[1] # <<>>
    /\ Tiers[1][1].percentage = 7000
    /\ 100 * Tiers[1][1].count > 70 * Denominator

Provided(result, m) ==
    LET audits == Get(result.lighthouse[1].audits, <<>>)
        hits   == SelectSeq(audits, LAMBDA a : a.id = CwvAudit[m])
    IN  IF hits = <<>> THEN None ELSE hits[1].numericValue

Providers(m) ==
    { i \in 1..Len(raw_results) :
        Audited(raw_results[i]) /\ Provided(raw_results[i], m) # None }

RECURSIVE SumProvided(_, _)
SumProvided(S, m) ==
    IF S = {} THEN 0
    ELSE LET i == CHOOSE x \in S : TRUE
         IN  Provided(raw_results[i], m)[1] + SumProvided(S \ {i}, m)

\* The summary holds an explicit absent value for the key m.
HoldsAbsent(m) ==
    \E i \in 1..Len(Out.summary.core_web_vitals) :
        /\ Out.summary.core_web_vitals[i].id = m
        /\ Out.summary.core_web_vitals[i].value = None

\* The summary holds the number v for the key m.
HoldsValue(m, v) ==
    \E i \in 1..Len(Out.summary.core_web_vitals) :
        /\ Out.summary.core_web_vitals[i].id = m
        /\ Out.summary.core_web_vitals[i].value = Some(v)

\* C5: for each of the six keys the summary holds an explicit absent value
\* exactly when no audited site provided a number for it, and otherwise
\* sum / count rounded to 2 decimals over the sites that provided one.
C5_AbsentOrAverage ==
    Done =>
        \A m \in Range(CwvKeys) :
            /\ HoldsAbsent(m) <=> Providers(m) = {}
            /\ Providers(m) # {} =>
                  HoldsValue(m, round(SumProvided(Providers(m), m),
                                      100 * Cardinality(Providers(m)), 2))

\* What the code does instead: a key no site provided a number for is left
\* out of the summary, and a key some site provided a number for holds the
\* average over the providing sites.
C5_OmittedOrAverage ==
    Done =>
        \A m \in Range(CwvKeys) :
            /\ ~ HoldsAbsent(m)
            /\ Providers(m) = {} => m \notin Range(Keys(Out.summary.core_web_vitals))
            /\ Providers(m) # {} =>
                  HoldsValue(m, round(SumProvided(Providers(m), m),
                                      100 * Cardinality(Providers(m)), 2))

\* The raw score of a category of a payload, 0 when the category or its
\* score is absent.
RawScore(result, name) ==
    LET hits == SelectSeq(Get(result.lighthouse[1].categories, <<>>),
                          LAMBDA c : c.id = name)
    IN  IF hits = <<>> \/ hits[1].score = None THEN 0 ELSE hits[1].score[1]

RECURSIVE SumScores(_, _)
SumScores(entries, name) ==
    IF entries = <<>> THEN 0
    ELSE (IF Head(entries).scores = None THEN 0
          ELSE IF name = "seo" THEN Head(entries).scores[1].seo
          ELSE Head(entries).scores[1].performance)
         + SumScores(Tail(entries), name)

\* C10: with raw scores absent or in [0, 1], the by_site scores of every
\* audited site are the raw scores times 100 (0 when absent) and lie in
\* [0, 100]; avg_performance and avg_seo are the sums of the by_site scores
\* over the audited sites divided by their number, rounded to 1 decimal
\* (0 when no site succeeded), and lie in [0, 100].
C10_Scores ==
    Done =>
        /\ Len(Out.by_site) = Len(raw_results)
        /\ \A i \in 1..Len(raw_results) :
              Audited(raw_results[i]) =>
                  /\ Out.by_site[i].scores # None
                  /\ Out.by_site[i].scores[1].performance
                        = 100 * RawScore(raw_results[i], "performance")
                  /\ Out.by_site[i].scores[1].seo
                        = 100 * RawScore(raw_results[i], "seo")
                  /\ Out.by_site[i].scores[1].performance \in 0..10000
                  /\ Out.by_site[i].scores[1].seo \in 0..10000
        /\ Out.summary.avg_performance
              = (IF Successes = 0 THEN 0
                 ELSE round(SumScores(Out.by_site, "performance"), 100 * Successes, 1))
        /\ Out.summary.avg_seo
              = (IF Successes = 0 THEN 0
                 ELSE round(SumScores(Out.by_site, "seo"), 100 * Successes, 1))
        /\ Out.summary.avg_performance \in 0..10000
        /\ Out.summary.avg_seo \in 0..10000

\* Three audited sites and an average that needs rounding, one category absent.
C10_Witness ==
    /\ Done
    /\ Successes >= 2
    /\ Successes < Len(raw_results)
    /\ SumScores(Out.by_site, "performance") % (10 * Successes) # 0
    /\ \E i \in 1..Len(raw_results) :
          /\ Audited(raw_results[i])
          /\ Get(raw_results[i].lighthouse[1].categories, <<>>) # <<>>
          /\ Out.by_site[i].scores[1].seo = 0
          /\ Out.by_site[i].scores[1].performance > 0

\* The audits of the payload given to extract_failed_audits.
GivenAudits == Range(Get(extract_input[1].audits, <<>>))

Returned == Range(extract_output[1])

\* C8: an audit is returned as a failed issue exactly when its id is not a
\* reserved metric identifier, its score is present and below 1, and its
\* display mode is not manual, notApplicable or informative; the reserved
\* set has nine ids, server-response-time among them, and no returned issue
\* has a reserved id, whatever the impact table holds for it.
C8_FailedExactly ==
    extract_output # None =>
        /\ Cardinality(METRIC_AUDITS) = 9
        /\ "server-response-time" \in METRIC_AUDITS
        /\ \A a \in GivenAudits :
              (\E e \in Returned : e.id = a.id)
                  <=> /\ a.id \notin METRIC_AUDITS
                      /\ a.score # None /\ a.score[1] < 100
                      /\ a.scoreDisplayMode \notin
                            { Some("manual"), Some("notApplicable"), Some("informative") }
        /\ \A e \in Returned :
              /\ e.id \notin METRIC_AUDITS
              /\ \E a \in GivenAudits : a.id = e.id
        /\ Len(extract_output[1]) = Cardinality(Returned)

\* A failing server-response-time audit is left out while another audit of
\* the same payload is returned.
C8_Witness ==
    /\ extract_output # None
    /\ \E a \in GivenAudits :
          /\ a.id = "server-response-time"
          /\ a.id \in DOMAIN AUDIT_IMPACT_MAP
          /\ a.score = Some(50) /\ a.scoreDisplayMode = Some("binary")
    /\ Len(extract_output[1]) = 1

\* The weights the impact is derived from.
Weight(m) ==
    CASE m = "TBT" -> 30 [] m = "LCP" -> 25 [] m = "CLS" -> 25
      [] m = "FCP" -> 10 [] m = "SI" -> 10 [] OTHER -> 0

RECURSIVE SumWeight(_)
SumWeight(metrics) ==
    IF metrics = <<>> THEN 0 ELSE Weight(Head(metrics)) + SumWeight(Tail(metrics))

\* C9: the impact of a returned issue comes from the static table when its
\* id is there (the record's metricSavings ignored); otherwise from a
\* non-empty metricSavings map, high for a weight total of at least 25,
\* medium for at least 10, low below, with the map's keys as affected
\* metrics; otherwise it is low with no affected metrics.
C9_ImpactFallback ==
    extract_output # None =>
        \A e \in Returned : \A a \in GivenAudits :
            a.id = e.id =>
                IF a.id \in DOMAIN AUDIT_IMPACT_MAP
                THEN /\ e.impact = AUDIT_IMPACT_MAP[a.id].impact
                     /\ e.affectedMetrics = AUDIT_IMPACT_MAP[a.id].metrics
                     /\ e.metricSavings = None
                ELSE IF a.metricSavings # <<>>
                THEN /\ e.affectedMetrics = Keys(a.metricSavings)
                     /\ SumWeight(Keys(a.metricSavings)) >= 25 => e.impact = "high"
                     /\ (SumWeight(Keys(a.metricSavings)) >= 10
                            /\ SumWeight(Keys(a.metricSavings)) < 25)
                           => e.impact = "medium"
                     /\ SumWeight(Keys(a.metricSavings)) < 10 => e.impact = "low"
                ELSE /\ e.impact = "low"
                     /\ e.affectedMetrics = <<>>

\* A table issue that carries metricSavings next to an unknown issue whose
\* weights sum to exactly 25.
C9_Witness ==
    /\ extract_output # None
    /\ \E e \in Returned : \E a \in GivenAudits :
          /\ a.id = e.id /\ a.id \in DOMAIN AUDIT_IMPACT_MAP
          /\ a.metricSavings # <<>> /\ e.metricSavings = None
    /\ \E e \in Returned : \E a \in GivenAudits :
          /\ a.id = e.id /\ a.id \notin DOMAIN AUDIT_IMPACT_MAP
          /\ SumWeight(Keys(a.metricSavings)) = 25 /\ e.impact = "high"

\* The audited sites of the input tagged with the theme t, in input order.
TaggedSites(t) ==
    SelectSeq(raw_results,
              LAMBDA r : Audited(r) /\ t \in Range(r.site_info.temas))

RECURSIVE SumRaw(_, _)
SumRaw(results, name) ==
    IF results = <<>> THEN 0
    ELSE 100 * RawScore(Head(results), name) + SumRaw(Tail(results), name)

InputThemes ==
    UNION { Range(raw_results[i].site_info.temas) : i \in 1..Len(raw_results) }

\* The by_theme entry of t is taken over exactly the audited sites tagged t.
ThemeEntryExact(e, t) ==
    /\ e.sites_count = Len(TaggedSites(t))
    /\ e.sites = [k \in 1..Len(TaggedSites(t)) |-> TaggedSites(t)[k].site_info.nome]
    /\ e.avg_performance
          = round(SumRaw(TaggedSites(t), "performance"), 100 * Len(TaggedSites(t)), 1)
    /\ e.avg_seo
          = round(SumRaw(TaggedSites(t), "seo"), 100 * Len(TaggedSites(t)), 1)

\* C11: by_theme has an entry for a theme exactly when an audited site is
\* tagged with it; the entry's sites_count is the number of audited sites
\* tagged with it, its site list names each of them once and its averages
\* are taken over them, also when a site names the theme more than once.
C11_ByTheme ==
    Done =>
        /\ Out.themes = InputThemes
        /\ \A t \in InputThemes :
              HasKey(Out.by_theme, t) <=> TaggedSites(t) # <<>>
        /\ \A i \in 1..Len(Out.by_theme) :
              /\ ThemeEntryExact(Out.by_theme[i], Out.by_theme[i].id)
              /\ \A j \in 1..Len(Out.by_theme) :
                    i # j => Out.by_theme[i].id # Out.by_theme[j].id

\* What the code satisfies: the same, for the themes that no audited site
\* names more than once.
NamedTwice(t) ==
    \E i \in 1..Len(raw_results) :
        /\ Audited(raw_results[i])
        /\ Len(SelectSeq(raw_results[i].site_info.temas, LAMBDA x : x = t)) > 1

C11_ByThemeDistinctTags ==
    Done =>
        /\ Out.themes = InputThemes
        /\ \A t \in InputThemes :
              HasKey(Out.by_theme, t) <=> TaggedSites(t) # <<>>
        /\ \A i \in 1..Len(Out.by_theme) :
              ~ NamedTwice(Out.by_theme[i].id)
                  => ThemeEntryExact(Out.by_theme[i], Out.by_theme[i].id)

\* The dictionary another run on the same input returns when its sets
\* iterate in the order `order`.
Rerun(order) == Analyze(raw_results, order)

\* C12: two runs of analyze_results on the same input return the same
\* dictionary, the order of every list in it included, whatever the
\* iteration order of the sets of a run.
C12_Deterministic ==
    Done => \A order \in Orders(all_themes) : Rerun(order) = Out

\* A tier list with the theme list of every issue taken as a set.
ThemesAsSets(issues) ==
    [i \in 1..Len(issues) |-> [issues[i] EXCEPT !.temas = Range(@)]]

\* What the code satisfies: two runs agree in everything but the order of
\* the theme lists of the issues.
C12_DeterministicUpToThemeOrder ==
    Done =>
        \A order \in Orders(all_themes) :
            /\ Rerun(order).summary = Out.summary
            /\ Rerun(order).by_site = Out.by_site
            /\ Rerun(order).by_theme = Out.by_theme
            /\ Rerun(order).themes = Out.themes
            /\ \A tier \in { "critical", "frequent", "occasional" } :
                  ThemesAsSets(Rerun(order).common_issues[tier])
                      = ThemesAsSets(Out.common_issues[tier])

Reported == report # None

TierNames == { "critical", "frequent", "occasional" }

\* The record r without its field f.
Without(r, f) == [k \in DOMAIN r \ {f} |-> r[k]]

\* C13: each tier list of the report holds the issues of the same tier
\* list of the analysis in the same order, each with every field of the
\* aggregated issue except the list of contributing sites.
C13_AllButSites ==
    Reported =>
        \A tier \in TierNames :
            LET given == Out.common_issues[tier]
                kept  == report[1].common_issues[tier]
            IN  /\ Len(kept) = Len(given)
                /\ \A i \in 1..Len(given) : kept[i] = Without(given[i], "sites")

\* What the code satisfies: same issues in the same order, and the fields
\* id, title, description, category, count, percentage and temas kept.
C13_SevenFields ==
    Reported =>
        \A tier \in TierNames :
            LET given == Out.common_issues[tier]
                kept  == report[1].common_issues[tier]
            IN  /\ Len(kept) = Len(given)
                /\ \A i \in 1..Len(given) :
                      /\ DOMAIN kept[i] = DOMAIN given[i] \ { "sites", "impact", "affectedMetrics" }
                      /\ \A k \in DOMAIN kept[i] : kept[i][k] = given[i][k]

\* The positions of the audited sites for which extract_failed_audits
\* returns id, in input order.
Reporters(id) ==
    { i \in 1..Len(raw_results) :
        /\ Audited(raw_results[i])
        /\ HasKey(extract_failed_audits(raw_results[i].lighthouse[1]), id) }

\* What extract_failed_audits returns about id for the site at position i.
ReportedAt(i, id) == Entry(extract_failed_audits(raw_results[i].lighthouse[1]), id)

LastReporter(id) == CHOOSE i \in Reporters(id) : \A j \in Reporters(id) : j <= i

FirstReporter(id) == CHOOSE i \in Reporters(id) : \A j \in Reporters(id) : i <= j

\* The names of the sites at the positions of P, in input order.
NamesAt(P) ==
    LET picked == SelectSeq([i \in 1..Len(raw_results) |-> i], LAMBDA i : i \in P)
    IN  [k \in 1..Len(picked) |-> raw_results[picked[k]].site_info.nome]

StampOf(r) ==
    << r.title, r.description, r.category, r.impact, r.affectedMetrics >>

\* C14: an aggregated issue carries the title, description, category,
\* impact and affected metrics of the last audited site, in input order,
\* that reports its id, while its count, its contributor list and its
\* theme set accumulate over all the sites that report it.
C14_LastWriteWins ==
    Done =>
        \A t \in 1..3 : \A k \in 1..Len(Tiers[t]) :
            LET issue == Tiers[t][k]
                P     == Reporters(issue.id)
            IN  /\ P # {}
                /\ StampOf(issue) = StampOf(ReportedAt(LastReporter(issue.id), issue.id))
                /\ issue.count = Cardinality(P)
                /\ issue.sites = NamesAt(P)
                /\ Range(issue.temas)
                     = UNION { Range(raw_results[i].site_info.temas) : i \in P }
                /\ Len(issue.temas) = Cardinality(Range(issue.temas))

\* Two sites report the issue with stamps that differ in all five fields.
C14_Witness ==
    /\ Done
    /\ \E t \in 1..3 : \E k \in 1..Len(Tiers[t]) :
          LET id    == Tiers[t][k].id
              first == ReportedAt(FirstReporter(id), id)
              last  == ReportedAt(LastReporter(id), id)
          IN  /\ Cardinality(Reporters(id)) >= 2
              /\ \A n \in 1..5 : StampOf(first)[n] # StampOf(last)[n]
              /\ StampOf(Tiers[t][k]) = StampOf(last)
              /\ Len(Tiers[t][k].temas) = 2

RunDone == run_pc = "done"

\* The sites run_audits is to audit: the roster, or its first `limit` sites.
Expected ==
    IF limit = None THEN df
    ELSE SubSeq(df, 1, IF limit[1] < Len(df) THEN limit[1] ELSE Len(df))

\* A result carries a payload and no error flag, or no payload and the flag.
PayloadXorError(result) ==
    \/ result.lighthouse # None /\ result.error = None
    \/ result.lighthouse = None /\ result.error = Some(TRUE)

\* C15: run_audits returns exactly one result per site of the roster (of
\* its first `limit` sites when a limit is given), in roster order, each
\* with a payload and no error flag or with no payload and the error flag.
C15_OnePerSite ==
    RunDone =>
        /\ Len(run_results) = Len(Expected)
        /\ \A k \in 1..Len(run_results) :
              /\ k <= Len(Expected) => run_results[k].site_info.nome = Expected[k].nome
              /\ PayloadXorError(run_results[k])

\* s with every element that repeats its predecessor removed.
RECURSIVE Collapse(_)
Collapse(s) ==
    IF Len(s) <= 1 THEN s
    ELSE IF s[1] = s[2] THEN Collapse(Tail(s))
         ELSE << s[1] >> \o Collapse(Tail(s))

\* What the code satisfies: every result has a payload or the error flag,
\* never both; the sites of the results are those of ApplyLimit, in order,
\* each once or twice in a row.
C15_EveryLimitedSite ==
    RunDone =>
        /\ \A k \in 1..Len(run_results) : PayloadXorError(run_results[k])
        /\ Collapse([k \in 1..Len(run_results) |-> run_results[k].site_info.nome])
             = [k \in 1..Len(sites) |-> sites[k].nome]
        /\ sites = ApplyLimit(df, limit)
        /\ Len(run_results) <= 2 * Len(sites)

ApiReturned == api_pc = "returned"

Ok(outcome) == outcome.exc = "none" /\ outcome.status_code = 200

\* The outcomes after which the claim allows another request.
Retryable(outcome) ==
    \/ outcome.exc \in { "Timeout", "ConnectionError" }
    \/ outcome.exc = "none" /\ outcome.status_code \in { 429, 502, 503, 504 }

\* The outcomes that end the call at once with None.
Fatal(outcome) == ~ Ok(outcome) /\ ~ Retryable(outcome)

\* At most `retries` requests; the value returned is None or the payload
\* of a 200 response that was the last outcome.
RequestsBounded ==
    /\ Len(responses) <= retries
    /\ Len(waits) = Len(responses)
    /\ api_pc = "loop" => attempt = Len(responses) /\ api_return = None
    /\ ApiReturned /\ api_return # None =>
          /\ responses # <<>>
          /\ Ok(responses[Len(responses)])
          /\ api_return = responses[Len(responses)].lighthouseResult

\* A request that was followed by another had a retryable outcome; a 200
\* or a fatal outcome is the last one and the call has returned, a fatal
\* one with None.
RetriesJustified ==
    /\ \A k \in 1..(Len(responses) - 1) : Retryable(responses[k])
    /\ \A k \in 1..Len(responses) :
          ~ Retryable(responses[k]) =>
              /\ k = Len(responses)
              /\ ApiReturned
              /\ waits[k] = 0
              /\ Fatal(responses[k]) => api_return = None

\* C16: run_lighthouse_api issues at most `retries` requests and returns
\* the payload of a 200 response or None; it issues a new request only
\* after a 429, 502, 503, 504, timeout or connection error and while
\* attempts remain; a 500, another status or another exception ends the
\* call at once with None; and after the failure of the last permitted
\* attempt it returns without waiting.
C16_BoundedRetries ==
    /\ RequestsBounded
    /\ RetriesJustified
    /\ ApiReturned /\ responses # <<>> => waits[Len(responses)] = 0

\* What the code satisfies: all of the above, except that a 429 on the
\* last permitted attempt is followed by a wait of RATE_LIMIT_WAIT times
\* the number of attempts before the call returns None.
C16_WaitsOnlyAfterFinal429 ==
    /\ RequestsBounded
    /\ RetriesJustified
    /\ ApiReturned /\ responses # <<>> =>
          LET n == Len(responses)
          IN  IF responses[n].exc = "none" /\ responses[n].status_code = 429
              THEN n = retries /\ waits[n] = RATE_LIMIT_WAIT * n /\ api_return = None
              ELSE waits[n] = 0
    /\ \A k \in 1..(Len(responses) - 1) : waits[k] > 0

\* Count, contributor list and bounds of one aggregated issue.
CountsSites(issue) ==
    /\ issue.count = Len(issue.sites)
    /\ issue.count = Cardinality(Reporters(issue.id))
    /\ 1 <= issue.count
    /\ issue.count <= Out.summary.successful_audits

====
